---- MODULE Spec2Model ----
(***************************************************************************)
(* Model of the LLM request dispatcher of src/llm_models/utils_model.py:   *)
(* the score table (model_usage), the selector (_select_model), the retry  *)
(* engine (_attempt_request_on_model) and the failover orchestrator        *)
(* (_execute_request), run as asyncio coroutines on one event loop.        *)
(*                                                                         *)
(* A coroutine runs without interruption from one await to the next; the   *)
(* variable cur names the request that holds the event loop (0: nobody).   *)
(* The awaits of the code are the client call and asyncio.sleep.           *)
(***************************************************************************)
EXTENDS Integers, Sequences, FiniteSets, TLC

\* ---------------------------------------------------------------- bounds
MaxModels   == 2    \* longest model_list of a task configuration
MaxRetry    == 2    \* largest api_provider.max_retry
MaxReq      == 2    \* request coroutines alive at the same time
MaxRequests == 1    \* requests started over the dispatcher's lifetime
MaxCompress == 2    \* compress_messages calls observed in one endpoint attempt
MaxPenalty  == 1    \* largest penalty and usage_penalty of a sampled score entry
MaxLen      == 5    \* longest content _extract_reasoning is applied to, in tokens
MaxFail     == 4    \* largest penalty failed requests have left on a score entry
MaxTools    == 2    \* longest list of tool descriptors given to _build_tool_options
MaxHash     == 2    \* emoji hashes the image proxy is asked about
MaxCalls    == 2    \* enqueue_transcode calls alive at the same time

Names       == 1..MaxModels
Req         == 1..MaxReq
\* max_retry of a provider: below zero, zero, one, the largest
RetryValues == {-1, 0, 1, MaxRetry}

\* ------------------------------------------------------------ exceptions
None                   == [type |-> "None", status_code |-> 0]
NetworkConnectionError == [type |-> "NetworkConnectionError", status_code |-> 0]
EmptyResponseException == [type |-> "EmptyResponseException", status_code |-> 0]
OtherException         == [type |-> "Exception", status_code |-> 0]
ModelAttemptFailed     == [type |-> "ModelAttemptFailed", status_code |-> 0]
NoModelError           == [type |-> "RuntimeError:no model available", status_code |-> 0]
AllFailedError         == [type |-> "RuntimeError:all models failed", status_code |-> 0]
FactoryError           == [type |-> "message_factory error", status_code |-> 0]
CancelledError         == [type |-> "CancelledError", status_code |-> 0]
RecorderError          == [type |-> "record_usage_to_database error", status_code |-> 0]
EmbeddingError         == [type |-> "RuntimeError:no embedding", status_code |-> 0]
RespNotOkException(s)  == [type |-> "RespNotOkException", status_code |-> s]

\* HTTP statuses the client is made to answer with (error_code_mapping, 413)
StatusCodes == {400, 401, 413, 429, 500}

\* except (EmptyResponseException, NetworkConnectionError)
IsSoftError(e) == e \in {EmptyResponseException, NetworkConnectionError}

\* slip: a strict comparison, HTTP 500 itself is no longer retried
IsRetryableStatus_Above500(e) ==
    /\ e.type = "RespNotOkException"
    /\ (e.status_code = 429 \/ e.status_code > 500)

\* if e.status_code == 429 or e.status_code >= 500
IsRetryableStatus(e) ==
    /\ e.type = "RespNotOkException"
    /\ (e.status_code = 429 \/ e.status_code >= 500)

\* slip: the 400 test is lost, a bad request fails over like any abort
IsBadRequest_Never(e) == FALSE

\* slip: every 4xx status is taken for a bad request
IsBadRequest_Any4xx(e) ==
    /\ e.type = "RespNotOkException"
    /\ e.status_code >= 400
    /\ e.status_code < 500

\* isinstance(last_exception, RespNotOkException) and last_exception.status_code == 400
IsBadRequest(e) == e.type = "RespNotOkException" /\ e.status_code = 400

\* slip: while retry_remain >= 0
CanAttempt_ZeroIncluded(remain) == remain >= 0

\* while retry_remain > 0
CanAttempt(remain) == remain > 0

\* slip: the budget is taken to be spent one retry early
BudgetExhausted_OffByOne(remain) == remain <= 1

\* if retry_remain <= 0 (after retry_remain -= 1)
BudgetExhausted(remain) == remain <= 0

\* slip: the failed endpoint is not recorded
AddFailed_Forgotten(failedModels, m) == failedModels

\* failed_models_this_request.add(model_info.name)
AddFailed(failedModels, m) == failedModels \cup {m}

\* how _execute_request files the cause of a ModelAttemptFailed
AbortClass(orig) ==
    IF orig = None THEN "never"
    ELSE IF IsSoftError(orig) \/ IsRetryableStatus(orig) THEN "exhausted"
    ELSE IF IsBadRequest(orig) THEN "bad_request"
    ELSE "fatal"

\* the answers the taxonomy calls transient: network error, empty response,
\* HTTP 429, HTTP 5xx
TransientAnswers ==
    {NetworkConnectionError, EmptyResponseException,
     RespNotOkException(429), RespNotOkException(500)}

Tally(e) == IF e \in TransientAnswers THEN 1 ELSE 0

ClientErrors ==
    {NetworkConnectionError, EmptyResponseException, OtherException}
        \cup {RespNotOkException(s) : s \in StatusCodes}

\* ------------------------------------------------------------- payloads
\* message_list: "empty" is [], "orig" the list the factory built.
\* compressed_messages: "None", "empty" ([]) or "comp" (a non-empty list).
Truthy(p) == p \notin {"None", "empty"}

\* compress_messages(message_list): a payload reduced in size
CompressOutputs == {"comp"}

\* a compressor that may also hand back an empty list
AnyCompressOutputs == {"comp", "empty"}

\* message_list=(compressed_messages or message_list)
PayloadSent(cm, ml) == IF Truthy(cm) THEN cm ELSE ml

RequestTypes == {"response", "embedding", "audio"}

VARIABLES
    modelList,        \* model_for_task.model_list
    maxRetry,         \* api_provider.max_retry of each model's provider
    model_usage,      \* self.model_usage: name -> <<total_tokens, penalty, usage_penalty>>
    cur,              \* request holding the event loop, 0 if none
    nStarted,         \* requests started so far
    pc,               \* position of each request coroutine
    request_type,
    failed,           \* failed_models_this_request
    attempt,          \* _attempt of the for loop
    last_exception,
    outer_compressed, \* compressed_messages of _execute_request
    model,            \* model_info.name of the current iteration
    message_list,
    retry_remain,
    compressed,       \* compressed_messages of _attempt_request_on_model
    original,         \* original_exception of the ModelAttemptFailed in flight
    exit,             \* how the try statement is being left
    result,           \* what the caller of _execute_request gets
    \* observations of the current iteration (set back when an endpoint is
    \* selected) and of the request
    calls,            \* client calls made in this endpoint attempt
    sleeps,           \* asyncio.sleep calls made in this endpoint attempt
    transients,       \* transient failures the client answered in this endpoint attempt
    comps,            \* compress_messages calls in this endpoint attempt
    compsReq,         \* compress_messages calls in this request
    produced,         \* last list compress_messages returned in this request
    tried,            \* endpoints selected in this request, in order
    built,            \* endpoints whose client message_factory was called with, in order
    preUsage,         \* usage_penalty of the selected endpoint just before selection
    prePenalty,       \* penalty of the selected endpoint just before selection
    aborts,           \* how each failed endpoint attempt of this request ended, in order
    sent,             \* payload given to the client in the latest call
    resp,             \* latest answer of the client
    \* the public method that awaited _execute_request
    delivered,        \* what its caller gets
    recorded,         \* how the call of the usage recorder went
    \* _extract_reasoning applied on its own
    content,          \* its argument
    extracted,        \* <<content, reasoning>> it returned
    \* _build_tool_options applied on its own
    tools,            \* its argument: the parameter list of each tool descriptor
    tool_options,     \* what the call came to
    \* the image proxy manager (webui/image_proxy/proxy_manager.py)
    pending_hashes,   \* self._pending_hashes
    transcode_queue,  \* self._transcode_queue, oldest item first
    pending_lock,     \* holder of self._pending_lock, NoHolder if free
    cache_files,      \* hashes whose .webp file exists in PROXY_DIR
    skip_files,       \* hashes whose .skip marker exists in PROXY_DIR
    worker,           \* position and task of each _worker coroutine
    caller,           \* position and emoji of each enqueue_transcode call
    returned          \* what the enqueue_transcode call that returned last returned

cfg    == <<modelList, maxRetry>>
locals == <<request_type, failed, attempt, last_exception, outer_compressed,
            model, message_list, retry_remain, compressed, original, exit, result>>
obs    == <<calls, sleeps, transients, comps, compsReq, produced, tried, built, preUsage,
            prePenalty, aborts, sent, resp>>
post   == <<delivered, recorded>>
text   == <<content, extracted>>
toolv  == <<tools, tool_options>>
proxy  == <<pending_hashes, transcode_queue, pending_lock, cache_files, skip_files,
            worker, caller, returned>>
apart  == <<text, toolv, proxy>>
vars   == <<cfg, model_usage, cur, nStarted, pc, locals, obs, post, apart>>

\* ---------------------------------------------------------- score table
RECURSIVE FirstOccurrences(_, _)
FirstOccurrences(list, seen) ==
    IF list = <<>> THEN <<>>
    ELSE IF Head(list) \in seen THEN FirstOccurrences(Tail(list), seen)
         ELSE <<Head(list)>> \o FirstOccurrences(Tail(list), seen \cup {Head(list)})

\* the keys of model_usage in dict order: {model: (0, 0, 0) for model in model_list}
Keys(list) == FirstOccurrences(list, {})
KeySet(list) == {list[i] : i \in 1..Len(list)}

\* a model_list that names no model twice
Distinct(list) == Len(Keys(list)) = Len(list)

InitialUsage(list) == [m \in KeySet(list) |-> <<0, 0, 0>>]

\* slip: the usage_penalty is weighed like the penalty, by 300
Cost_LoadWeighedAsFailure(scores) == scores[1] + scores[2] * 300 + scores[3] * 300

\* available_models[k][0] + available_models[k][1] * 300 + available_models[k][2] * 1000
Cost(scores) == scores[1] + scores[2] * 300 + scores[3] * 1000

\* slip: "if exclude_models and model not in exclude_models", an empty
\* exclusion set leaves nothing available
IsAvailable_NeedsExclusions(m, exclude_models) ==
    exclude_models # {} /\ m \notin exclude_models

\* slip: the comprehension has lost its condition, exclude_models is ignored
IsAvailable_IgnoresExclusions(m, exclude_models) == TRUE

\* if not exclude_models or model not in exclude_models
IsAvailable(m, exclude_models) == exclude_models = {} \/ m \notin exclude_models

\* slip: the failed endpoints are kept on the LLMRequest object, one set for
\* all its requests
AvailableModels_SharedExclusions(list, exclude_models) ==
    SelectSeq(Keys(list),
              LAMBDA m : IsAvailable(m, exclude_models \cup UNION {failed[q] : q \in Req}))

AvailableModels(list, exclude_models) ==
    SelectSeq(Keys(list), LAMBDA m : IsAvailable(m, exclude_models))

\* slip: on equal cost the later key replaces the earlier one
RECURSIVE MinByCost_LastWins(_, _, _)
MinByCost_LastWins(rest, best, usage) ==
    IF rest = <<>> THEN best
    ELSE IF Cost(usage[Head(rest)]) <= Cost(usage[best])
         THEN MinByCost_LastWins(Tail(rest), Head(rest), usage)
         ELSE MinByCost_LastWins(Tail(rest), best, usage)

\* min(available_models, key=...): the first key of least cost
RECURSIVE MinByCost(_, _, _)
MinByCost(rest, best, usage) ==
    IF rest = <<>> THEN best
    ELSE IF Cost(usage[Head(rest)]) < Cost(usage[best])
         THEN MinByCost(Tail(rest), Head(rest), usage)
         ELSE MinByCost(Tail(rest), best, usage)

LeastUsedModel(available, usage) == MinByCost(Tail(available), Head(available), usage)

\* slip: the selection returns without writing the raised usage_penalty back
IncUsagePenalty_Lost(usage, m) == usage

\* self.model_usage[name] = (total_tokens, penalty, usage_penalty + 1)
IncUsagePenalty(usage, m) ==
    [usage EXCEPT ![m] = <<usage[m][1], usage[m][2], usage[m][3] + 1>>]

\* slip: the tuple is put together in the wrong order, the increment lands
\* on total_tokens
IncPenalty_OnTokens(usage, m) ==
    [usage EXCEPT ![m] = <<usage[m][1] + 1, usage[m][2], usage[m][3]>>]

\* slip: the penalty is a flag, set to 1 rather than counted
IncPenalty_Flag(usage, m) ==
    [usage EXCEPT ![m] = <<usage[m][1], 1, usage[m][3]>>]

\* self.model_usage[name] = (total_tokens, penalty + 1, usage_penalty)
IncPenalty(usage, m) ==
    [usage EXCEPT ![m] = <<usage[m][1], usage[m][2] + 1, usage[m][3]>>]

\* slip: the finally block leaves the score entry as it is
DecUsagePenalty_Skipped(usage, m) == usage

\* slip: the cleanup writes 0 instead of usage_penalty - 1
DecUsagePenalty_Reset(usage, m) ==
    [usage EXCEPT ![m] = <<usage[m][1], usage[m][2], 0>>]

\* if usage_penalty > 0: self.model_usage[name] = (total_tokens, penalty, usage_penalty - 1)
DecUsagePenalty(usage, m) ==
    IF usage[m][3] > 0
    THEN [usage EXCEPT ![m] = <<usage[m][1], usage[m][2], usage[m][3] - 1>>]
    ELSE usage

\* ------------------------------------------------------------------ Init
RECURSIVE SeqsOfLen(_, _)
SeqsOfLen(S, n) ==
    IF n = 0 THEN {<<>>}
    ELSE {<<x>> \o s : x \in S, s \in SeqsOfLen(S, n - 1)}

ModelLists == UNION {SeqsOfLen(Names, n) : n \in 0..MaxModels}

\* model names carry no meaning: a configuration is taken up to renaming, its
\* distinct names numbered in the order of their first occurrence
Canonical(list) == \A i \in 1..Len(Keys(list)) : Keys(list)[i] = i

\* no coroutine frame exists yet
InitFrames ==
    /\ request_type = [r \in Req |-> "response"]
    /\ attempt = [r \in Req |-> 0]
    /\ last_exception = [r \in Req |-> None]
    /\ outer_compressed = [r \in Req |-> "None"]
    /\ model = [r \in Req |-> 0]
    /\ message_list = [r \in Req |-> "empty"]
    /\ retry_remain = [r \in Req |-> 0]
    /\ compressed = [r \in Req |-> "None"]
    /\ original = [r \in Req |-> None]
    /\ exit = [r \in Req |-> "none"]
    /\ result = [r \in Req |-> [kind |-> "pending", exc |-> None, model |-> 0]]
    /\ calls = [r \in Req |-> 0]
    /\ sleeps = [r \in Req |-> 0]
    /\ transients = [r \in Req |-> 0]
    /\ comps = [r \in Req |-> 0]
    /\ compsReq = [r \in Req |-> 0]
    /\ produced = [r \in Req |-> "None"]
    /\ tried = [r \in Req |-> <<>>]
    /\ built = [r \in Req |-> <<>>]
    /\ preUsage = [r \in Req |-> 0]
    /\ prePenalty = [r \in Req |-> 0]
    /\ aborts = [r \in Req |-> <<>>]
    /\ sent = [r \in Req |-> "None"]
    /\ resp = [r \in Req |-> None]
    /\ delivered = [r \in Req |-> [kind |-> "pending", exc |-> None, model |-> 0]]
    /\ recorded = [r \in Req |-> "none"]

\* _extract_reasoning has not been applied
NoText ==
    /\ content = <<>>
    /\ extracted = <<>>

\* _build_tool_options has not been called
NotCalled == [kind |-> "not called", options |-> <<>>]

NoTools ==
    /\ tools = <<>>
    /\ tool_options = NotCalled

Hashes    == 1..MaxHash
CallIds   == 1..MaxCalls
NoHolder  == <<"none", 0>>

\* MAX_CONCURRENT_TRANSCODE
MaxConcurrentTranscode == 2
WorkerIds == 1..MaxConcurrentTranscode

\* the ProxyManager as __init__ leaves it: nothing queued, no worker task, an
\* empty PROXY_DIR
NoProxy ==
    /\ pending_hashes = {}
    /\ transcode_queue = <<>>
    /\ pending_lock = NoHolder
    /\ cache_files = {}
    /\ skip_files = {}
    /\ worker = [w \in WorkerIds |-> [at |-> "not started", hash |-> 0]]
    /\ caller = [c \in CallIds |-> [at |-> "idle", hash |-> 0]]
    /\ returned = "nothing"

\* the dispatcher as __init__ leaves it, for any task configuration
Init ==
    /\ modelList \in {l \in ModelLists : Canonical(l)}
    /\ maxRetry \in [KeySet(modelList) -> RetryValues]
    /\ model_usage = InitialUsage(modelList)
    /\ cur = 0
    /\ nStarted = 0
    /\ pc = [r \in Req |-> "idle"]
    /\ failed = [r \in Req |-> {}]
    /\ InitFrames
    /\ NoText
    /\ NoTools
    /\ NoProxy

\* a coroutine frame that does not exist (before the call, after the answer)
NoFrame(r) ==
    /\ request_type'= [request_type EXCEPT ![r] = "response"]
    /\ failed' = [failed EXCEPT ![r] = {}]
    /\ attempt' = [attempt EXCEPT ![r] = 0]
    /\ last_exception' = [last_exception EXCEPT ![r] = None]
    /\ outer_compressed' = [outer_compressed EXCEPT ![r] = "None"]
    /\ model' = [model EXCEPT ![r] = 0]
    /\ message_list' = [message_list EXCEPT ![r] = "empty"]
    /\ retry_remain' = [retry_remain EXCEPT ![r] = 0]
    /\ compressed' = [compressed EXCEPT ![r] = "None"]
    /\ original' = [original EXCEPT ![r] = None]
    /\ exit' = [exit EXCEPT ![r] = "none"]
    /\ result' = [result EXCEPT ![r] = [kind |-> "pending", exc |-> None, model |-> 0]]
    /\ calls' = [calls EXCEPT ![r] = 0]
    /\ sleeps' = [sleeps EXCEPT ![r] = 0]
    /\ transients' = [transients EXCEPT ![r] = 0]
    /\ comps' = [comps EXCEPT ![r] = 0]
    /\ compsReq' = [compsReq EXCEPT ![r] = 0]
    /\ produced' = [produced EXCEPT ![r] = "None"]
    /\ tried' = [tried EXCEPT ![r] = <<>>]
    /\ built' = [built EXCEPT ![r] = <<>>]
    /\ preUsage' = [preUsage EXCEPT ![r] = 0]
    /\ prePenalty' = [prePenalty EXCEPT ![r] = 0]
    /\ aborts' = [aborts EXCEPT ![r] = <<>>]
    /\ sent' = [sent EXCEPT ![r] = "None"]
    /\ resp' = [resp EXCEPT ![r] = None]
    /\ delivered' = [delivered EXCEPT ![r] = [kind |-> "pending", exc |-> None, model |-> 0]]
    /\ recorded' = [recorded EXCEPT ![r] = "none"]

\* --------------------------------------------------------- _execute_request
\* a caller awaits _execute_request: the locals of lines 338-341
Start(r, rt) ==
    /\ pc[r] = "idle"
    /\ cur = 0
    /\ nStarted' = nStarted + 1
    /\ cur' = r
    /\ pc' = [pc EXCEPT ![r] = "loop"]
    /\ request_type' = [request_type EXCEPT ![r] = rt]
    /\ failed' = [failed EXCEPT ![r] = {}]
    /\ last_exception' = [last_exception EXCEPT ![r] = None]
    /\ outer_compressed' = [outer_compressed EXCEPT ![r] = "None"]
    /\ attempt' = [attempt EXCEPT ![r] = 0]
    /\ UNCHANGED <<cfg, model_usage, model, message_list, retry_remain, compressed,
                   original, exit, result, obs>>
    /\ UNCHANGED <<post, apart>>

\* _select_model returns: the least used available model, its usage_penalty raised
SelectModel(r) ==
    /\ pc[r] = "loop"
    /\ cur = r
    /\ attempt[r] < Len(modelList)
    /\ AvailableModels(modelList, failed[r]) # <<>>
    /\ LET m == LeastUsedModel(AvailableModels(modelList, failed[r]), model_usage)
       IN /\ model' = [model EXCEPT ![r] = m]
          /\ preUsage' = [preUsage EXCEPT ![r] = model_usage[m][3]]
          /\ prePenalty' = [prePenalty EXCEPT ![r] = model_usage[m][2]]
          /\ model_usage' = IncUsagePenalty(model_usage, m)
          /\ tried' = [tried EXCEPT ![r] = Append(@, m)]
    /\ calls' = [calls EXCEPT ![r] = 0]
    /\ sleeps' = [sleeps EXCEPT ![r] = 0]
    /\ transients' = [transients EXCEPT ![r] = 0]
    /\ comps' = [comps EXCEPT ![r] = 0]
    /\ sent' = [sent EXCEPT ![r] = "None"]
    /\ resp' = [resp EXCEPT ![r] = None]
    /\ pc' = [pc EXCEPT ![r] = "factory"]
    /\ UNCHANGED <<cfg, cur, nStarted, request_type, failed, attempt, last_exception,
                   outer_compressed, message_list, retry_remain, compressed, original,
                   exit, result, compsReq, produced, aborts>>
    /\ UNCHANGED <<built, post, apart>>

\* _select_model raises RuntimeError: no model is available; nothing catches it
SelectModelFails(r) ==
    /\ pc[r] = "loop"
    /\ cur = r
    /\ attempt[r] < Len(modelList)
    /\ AvailableModels(modelList, failed[r]) = <<>>
    /\ result' = [result EXCEPT ![r] = [kind |-> "raise", exc |-> NoModelError, model |-> 0]]
    /\ pc' = [pc EXCEPT ![r] = "done"]
    /\ cur' = 0
    /\ UNCHANGED <<cfg, model_usage, nStarted, request_type, failed, attempt, last_exception,
                   outer_compressed, model, message_list, retry_remain, compressed, original,
                   exit, obs>>
    /\ UNCHANGED <<post, apart>>

\* the for loop is over: raise last_exception, or the generic RuntimeError
LoopExhausted(r) ==
    /\ pc[r] = "loop"
    /\ cur = r
    /\ attempt[r] >= Len(modelList)
    /\ result' = [result EXCEPT ![r] =
                    [kind |-> "raise",
                     exc |-> IF last_exception[r] # None THEN last_exception[r]
                             ELSE AllFailedError,
                     model |-> 0]]
    /\ pc' = [pc EXCEPT ![r] = "done"]
    /\ cur' = 0
    /\ UNCHANGED <<cfg, model_usage, nStarted, request_type, failed, attempt, last_exception,
                   outer_compressed, model, message_list, retry_remain, compressed, original,
                   exit, obs>>
    /\ UNCHANGED <<post, apart>>

\* message_list is built and _attempt_request_on_model is entered
BuildMessages(r) ==
    /\ pc[r] = "factory"
    /\ cur = r
    /\ message_list' = [message_list EXCEPT ![r] =
                          IF request_type[r] = "response" THEN "orig" ELSE "empty"]
    /\ retry_remain' = [retry_remain EXCEPT ![r] = maxRetry[model[r]]]
    /\ compressed' = [compressed EXCEPT ![r] = outer_compressed[r]]
    /\ built' = [built EXCEPT ![r] =
                   IF request_type[r] = "response" THEN Append(@, model[r]) ELSE @]
    /\ pc' = [pc EXCEPT ![r] = "while"]
    /\ UNCHANGED <<cfg, model_usage, cur, nStarted, request_type, failed, attempt,
                   last_exception, outer_compressed, model, original, exit, result>>
    /\ UNCHANGED <<calls, sleeps, transients, comps, compsReq, produced, tried, preUsage,
                   prePenalty, aborts, sent, resp>>
    /\ UNCHANGED <<post, apart>>

\* message_factory(client) raises: the call is outside the try statement
FactoryRaises(r) ==
    /\ pc[r] = "factory"
    /\ cur = r
    /\ request_type[r] = "response"
    /\ result' = [result EXCEPT ![r] = [kind |-> "raise", exc |-> FactoryError, model |-> 0]]
    /\ pc' = [pc EXCEPT ![r] = "done"]
    /\ built' = [built EXCEPT ![r] = Append(@, model[r])]
    /\ cur' = 0
    /\ UNCHANGED <<cfg, model_usage, nStarted, request_type, failed, attempt, last_exception,
                   outer_compressed, model, message_list, retry_remain, compressed, original,
                   exit>>
    /\ UNCHANGED <<calls, sleeps, transients, comps, compsReq, produced, tried, preUsage,
                   prePenalty, aborts, sent, resp>>
    /\ UNCHANGED <<post, apart>>

\* ------------------------------------------------- _attempt_request_on_model
\* while retry_remain > 0: await client.get_response(...) / get_embedding / ...
CallClient(r) ==
    /\ pc[r] = "while"
    /\ cur = r
    /\ CanAttempt(retry_remain[r])
    /\ calls' = [calls EXCEPT ![r] = @ + 1]
    /\ sent' = [sent EXCEPT ![r] = PayloadSent(compressed[r], message_list[r])]
    /\ resp' = [resp EXCEPT ![r] = None]
    /\ pc' = [pc EXCEPT ![r] = "calling"]
    /\ cur' = 0
    /\ UNCHANGED <<cfg, model_usage, nStarted, locals, sleeps, transients, comps, compsReq,
                   produced, tried, preUsage, prePenalty, aborts>>
    /\ UNCHANGED <<built, post, apart>>

\* the while loop is not entered: raise ModelAttemptFailed without a cause
NeverAttempted(r) ==
    /\ pc[r] = "while"
    /\ cur = r
    /\ ~CanAttempt(retry_remain[r])
    /\ original' = [original EXCEPT ![r] = None]
    /\ pc' = [pc EXCEPT ![r] = "except"]
    /\ UNCHANGED <<cfg, model_usage, cur, nStarted, request_type, failed, attempt,
                   last_exception, outer_compressed, model, message_list, retry_remain,
                   compressed, exit, result, obs>>
    /\ UNCHANGED <<post, apart>>

\* the client returns an APIResponse: return response, model_info
ClientSuccess(r) ==
    /\ pc[r] = "calling"
    /\ cur = 0
    /\ resp' = [resp EXCEPT ![r] = [type |-> "APIResponse", status_code |-> 0]]
    /\ exit' = [exit EXCEPT ![r] = "return"]
    /\ pc' = [pc EXCEPT ![r] = "finally"]
    /\ cur' = r
    /\ UNCHANGED <<cfg, model_usage, nStarted, request_type, failed, attempt, last_exception,
                   outer_compressed, model, message_list, retry_remain, compressed, original,
                   result, calls, sleeps, transients, comps, compsReq, produced, tried, preUsage,
                   prePenalty, aborts, sent>>
    /\ UNCHANGED <<built, post, apart>>

\* EmptyResponseException, NetworkConnectionError, HTTP 429 or >= 500
ClientTransient(r, e) ==
    /\ pc[r] = "calling"
    /\ cur = 0
    /\ IsSoftError(e) \/ IsRetryableStatus(e)
    /\ resp' = [resp EXCEPT ![r] = e]
    /\ transients' = [transients EXCEPT ![r] = @ + Tally(e)]
    /\ retry_remain' = [retry_remain EXCEPT ![r] = @ - 1]
    /\ IF BudgetExhausted(retry_remain[r] - 1)
       THEN /\ original' = [original EXCEPT ![r] = e]
            /\ pc' = [pc EXCEPT ![r] = "except"]
            /\ cur' = r
            /\ UNCHANGED sleeps
       ELSE /\ sleeps' = [sleeps EXCEPT ![r] = @ + 1]
            /\ pc' = [pc EXCEPT ![r] = "sleeping"]
            /\ cur' = 0
            /\ UNCHANGED original
    /\ UNCHANGED <<cfg, model_usage, nStarted, request_type, failed, attempt, last_exception,
                   outer_compressed, model, message_list, compressed, exit, result,
                   calls, comps, compsReq, produced, tried, preUsage, prePenalty, aborts,
                   sent>>
    /\ UNCHANGED <<built, post, apart>>

\* slip: the test "not compressed_messages" is lost
CompressApplies_Always(r, e) ==
    /\ e = RespNotOkException(413)
    /\ Truthy(message_list[r])

\* if e.status_code == 413 and message_list and not compressed_messages
CompressApplies(r, e) ==
    /\ e = RespNotOkException(413)
    /\ Truthy(message_list[r])
    /\ ~Truthy(compressed[r])

\* HTTP 413: compressed_messages = compress_messages(message_list); continue
ClientPayloadTooLarge(r, out) ==
    /\ pc[r] = "calling"
    /\ cur = 0
    /\ CompressApplies(r, RespNotOkException(413))
    /\ comps[r] < MaxCompress
    /\ resp' = [resp EXCEPT ![r] = RespNotOkException(413)]
    /\ compressed' = [compressed EXCEPT ![r] = out]
    /\ comps' = [comps EXCEPT ![r] = @ + 1]
    /\ compsReq' = [compsReq EXCEPT ![r] = @ + 1]
    /\ produced' = [produced EXCEPT ![r] = out]
    /\ pc' = [pc EXCEPT ![r] = "while"]
    /\ cur' = r
    /\ UNCHANGED <<cfg, model_usage, nStarted, request_type, failed, attempt, last_exception,
                   outer_compressed, model, message_list, retry_remain, original, exit,
                   result, calls, sleeps, transients, tried, preUsage, prePenalty, aborts, sent>>
    /\ UNCHANGED <<built, post, apart>>

\* any other RespNotOkException, or any other Exception: raise ModelAttemptFailed
ClientFatal(r, e) ==
    /\ pc[r] = "calling"
    /\ cur = 0
    /\ ~IsSoftError(e)
    /\ ~IsRetryableStatus(e)
    /\ ~CompressApplies(r, e)
    /\ resp' = [resp EXCEPT ![r] = e]
    /\ transients' = [transients EXCEPT ![r] = @ + Tally(e)]
    /\ original' = [original EXCEPT ![r] = e]
    /\ pc' = [pc EXCEPT ![r] = "except"]
    /\ cur' = r
    /\ UNCHANGED <<cfg, model_usage, nStarted, request_type, failed, attempt, last_exception,
                   outer_compressed, model, message_list, retry_remain, compressed, exit,
                   result, calls, sleeps, comps, compsReq, produced, tried, preUsage,
                   prePenalty, aborts, sent>>
    /\ UNCHANGED <<built, post, apart>>

\* await asyncio.sleep(api_provider.retry_interval) returns
WakeUp(r) ==
    /\ pc[r] = "sleeping"
    /\ cur = 0
    /\ pc' = [pc EXCEPT ![r] = "while"]
    /\ cur' = r
    /\ UNCHANGED <<cfg, model_usage, nStarted, locals, obs>>
    /\ UNCHANGED <<post, apart>>

\* slip: "except BaseException" in the retry engine, the cancellation is taken
\* for a failure of the endpoint
Cancel_CaughtAsFailure(r) ==
    /\ pc[r] \in {"calling", "sleeping"}
    /\ cur = 0
    /\ original' = [original EXCEPT ![r] = CancelledError]
    /\ pc' = [pc EXCEPT ![r] = "except"]
    /\ cur' = r
    /\ UNCHANGED <<cfg, model_usage, nStarted, request_type, failed, attempt, last_exception,
                   outer_compressed, model, message_list, retry_remain, compressed, exit,
                   result, obs, post, apart>>

\* the caller cancels the task: CancelledError is raised at the await
Cancel(r) ==
    /\ pc[r] \in {"calling", "sleeping"}
    /\ cur = 0
    /\ exit' = [exit EXCEPT ![r] = "cancel"]
    /\ pc' = [pc EXCEPT ![r] = "finally"]
    /\ cur' = r
    /\ UNCHANGED <<cfg, model_usage, nStarted, request_type, failed, attempt, last_exception,
                   outer_compressed, model, message_list, retry_remain, compressed, original,
                   result, obs>>
    /\ UNCHANGED <<post, apart>>

\* except ModelAttemptFailed as e (lines 366-375)
HandleAttemptFailed(r) ==
    /\ pc[r] = "except"
    /\ cur = r
    /\ LET le == IF original[r] # None THEN original[r] ELSE ModelAttemptFailed
       IN /\ last_exception' = [last_exception EXCEPT ![r] = le]
          /\ exit' = [exit EXCEPT ![r] = IF IsBadRequest(le) THEN "raise" ELSE "continue"]
    /\ model_usage' = IncPenalty(model_usage, model[r])
    /\ failed' = [failed EXCEPT ![r] = AddFailed(@, model[r])]
    /\ aborts' = [aborts EXCEPT ![r] = Append(@, AbortClass(original[r]))]
    /\ pc' = [pc EXCEPT ![r] = "finally"]
    /\ UNCHANGED <<cfg, cur, nStarted, request_type, attempt, outer_compressed, model,
                   message_list, retry_remain, compressed, original, result,
                   calls, sleeps, transients, comps, compsReq, produced, tried, preUsage,
                   prePenalty, sent, resp>>
    /\ UNCHANGED <<built, post, apart>>

\* finally (lines 377-380), then the try statement is left the way exit says
Cleanup(r) ==
    /\ pc[r] = "finally"
    /\ cur = r
    /\ model_usage' = DecUsagePenalty(model_usage, model[r])
    /\ CASE exit[r] = "return" ->
              /\ result' = [result EXCEPT ![r] =
                              [kind |-> "return", exc |-> None, model |-> model[r]]]
              /\ pc' = [pc EXCEPT ![r] = "done"]
              /\ cur' = 0
              /\ UNCHANGED attempt
         [] exit[r] = "raise" ->
              /\ result' = [result EXCEPT ![r] =
                              [kind |-> "raise", exc |-> last_exception[r], model |-> 0]]
              /\ pc' = [pc EXCEPT ![r] = "done"]
              /\ cur' = 0
              /\ UNCHANGED attempt
         [] exit[r] = "cancel" ->
              /\ result' = [result EXCEPT ![r] =
                              [kind |-> "raise", exc |-> CancelledError, model |-> 0]]
              /\ pc' = [pc EXCEPT ![r] = "done"]
              /\ cur' = 0
              /\ UNCHANGED attempt
         [] OTHER ->
              /\ attempt' = [attempt EXCEPT ![r] = @ + 1]
              /\ pc' = [pc EXCEPT ![r] = "loop"]
              /\ UNCHANGED <<result, cur>>
    /\ UNCHANGED <<cfg, nStarted, request_type, failed, last_exception, outer_compressed,
                   model, message_list, retry_remain, compressed, original, exit, obs>>
    /\ UNCHANGED <<post, apart>>

\* ------------------------------ generate_response_*, get_embedding
\* _execute_request raised: nothing in the public method catches it
Propagate(r) ==
    /\ pc[r] = "done"
    /\ cur = 0
    /\ delivered[r].kind = "pending"
    /\ result[r].kind = "raise"
    /\ delivered' = [delivered EXCEPT ![r] = result[r]]
    /\ UNCHANGED <<cfg, model_usage, cur, nStarted, pc, locals, obs, recorded, apart>>

\* the public methods that hand response.usage to llm_usage_recorder
UsesRecorder(rt) == rt \in {"response", "embedding"}

\* _execute_request returned: if usage := response.usage, the recorder is
\* called (it answers or raises); get_embedding raises on an empty embedding;
\* then the method returns
RecordAndReturn(r, usage, raises, empty) ==
    /\ pc[r] = "done"
    /\ cur = 0
    /\ delivered[r].kind = "pending"
    /\ result[r].kind = "return"
    /\ LET called == UsesRecorder(request_type[r]) /\ usage
       IN /\ recorded' = [recorded EXCEPT ![r] =
                             IF ~called THEN "none"
                             ELSE IF raises THEN "raised" ELSE "ok"]
          /\ delivered' = [delivered EXCEPT ![r] =
                IF called /\ raises
                THEN [kind |-> "raise", exc |-> RecorderError, model |-> 0]
                ELSE IF request_type[r] = "embedding" /\ empty
                THEN [kind |-> "raise", exc |-> EmbeddingError, model |-> 0]
                ELSE result[r]]
    /\ UNCHANGED <<cfg, model_usage, cur, nStarted, pc, locals, obs, apart>>

\* the caller has its answer; the slot can carry the next request
Finish(r) ==
    /\ pc[r] = "done"
    /\ cur = 0
    /\ delivered[r].kind # "pending"
    /\ pc' = [pc EXCEPT ![r] = "idle"]
    /\ NoFrame(r)
    /\ UNCHANGED <<cfg, model_usage, cur, nStarted, apart>>

Step(r, outputs) ==
    \/ SelectModel(r)
    \/ SelectModelFails(r)
    \/ LoopExhausted(r)
    \/ BuildMessages(r)
    \/ FactoryRaises(r)
    \/ CallClient(r)
    \/ NeverAttempted(r)
    \/ ClientSuccess(r)
    \/ \E e \in ClientErrors : ClientTransient(r, e)
    \/ \E out \in outputs : ClientPayloadTooLarge(r, out)
    \/ \E e \in ClientErrors : ClientFatal(r, e)
    \/ WakeUp(r)
    \/ Cancel(r)
    \/ HandleAttemptFailed(r)
    \/ Cleanup(r)
    \/ Propagate(r)
    \/ \E usage, raises, empty \in BOOLEAN : RecordAndReturn(r, usage, raises, empty)
    \/ Finish(r)

\* a request awaited while no other request of the dispatcher is in flight;
\* which frame carries it makes no difference, the first one is taken
StartAlone(rt) ==
    /\ \A q \in Req : pc[q] = "idle"
    /\ nStarted < MaxRequests
    /\ Start(1, rt)

\* requests issued one after the other
Next ==
    \/ \E rt \in RequestTypes : StartAlone(rt)
    \/ \E r \in Req : Step(r, CompressOutputs)

Spec == Init /\ [][Next]_vars

\* requests issued one after the other, with a compress_messages that may
\* hand back an empty list
NextAnyCompressor ==
    \/ \E rt \in RequestTypes : StartAlone(rt)
    \/ \E r \in Req : Step(r, AnyCompressOutputs)

SpecAnyCompressor == Init /\ [][NextAnyCompressor]_vars

\* ------------------------------------------- requests awaited concurrently
\* the task configurations of the concurrent scenario: one endpoint whose
\* provider retries (or is never attempted), or two endpoints that are given
\* one call each (or are never attempted)
ConcModelLists == {<<1>>, <<1, 2>>}
ConcRetryValues(list) == IF Len(list) = 1 THEN {0, 2} ELSE {0, 1}

\* what the client is made to answer with there, besides a response: a
\* transient, an endpoint-fatal and a request-fatal error
ConcErrors == {NetworkConnectionError, RespNotOkException(401), RespNotOkException(400)}

InitConc ==
    /\ modelList \in ConcModelLists
    /\ maxRetry \in [KeySet(modelList) -> ConcRetryValues(modelList)]
    /\ model_usage = InitialUsage(modelList)
    /\ cur = 0
    /\ nStarted = 0
    /\ pc = [r \in Req |-> "idle"]
    /\ failed = [r \in Req |-> {}]
    /\ InitFrames
    /\ NoText
    /\ NoTools
    /\ NoProxy

\* one more task awaits a public method of the same LLMRequest; every frame
\* carries one request, the frames are taken in order
StartNext(rt) ==
    /\ nStarted < MaxReq
    /\ Start(nStarted + 1, rt)

\* a step of one of the coroutines; message_factory does not raise, no
\* payload is answered with HTTP 413 and the usage recorder does its work
ConcStep(r) ==
    \/ SelectModel(r)
    \/ LoopExhausted(r)
    \/ BuildMessages(r)
    \/ CallClient(r)
    \/ NeverAttempted(r)
    \/ ClientSuccess(r)
    \/ \E e \in ConcErrors : ClientTransient(r, e)
    \/ \E e \in ConcErrors : ClientFatal(r, e)
    \/ WakeUp(r)
    \/ Cancel(r)
    \/ HandleAttemptFailed(r)
    \/ Cleanup(r)
    \/ Propagate(r)
    \/ RecordAndReturn(r, TRUE, FALSE, FALSE)
    \/ Finish(r)

NextConc ==
    \/ StartNext("response")
    \/ \E r \in Req : ConcStep(r)

SpecConc == InitConc /\ [][NextConc]_vars

\* -------------------------------------------------- _select_model on its own
\* score entries _select_model is applied to
TokenSamples == {0, 100, 300}
ScoreSamples ==
    {<<t, p, u>> : t \in TokenSamples, p \in 0..MaxPenalty, u \in 0..MaxPenalty}

\* a request about to call _select_model, for any score table and any exclusion set
InitSelect ==
    /\ modelList \in {l \in ModelLists : l # <<>> /\ Distinct(l)}
    /\ maxRetry \in [KeySet(modelList) -> {1}]
    /\ model_usage \in [KeySet(modelList) -> ScoreSamples]
    /\ cur = 1
    /\ nStarted = 1
    /\ pc = [r \in Req |-> IF r = 1 THEN "loop" ELSE "idle"]
    /\ failed \in {[r \in Req |-> IF r = 1 THEN x ELSE {}] : x \in SUBSET Names}
    /\ InitFrames
    /\ NoText
    /\ NoTools
    /\ NoProxy

NextSelect ==
    \/ \E r \in Req : SelectModel(r)
    \/ \E r \in Req : SelectModelFails(r)

SpecSelect == InitSelect /\ [][NextSelect]_vars

\* ------------------------------- _select_model after many failed requests
\* score entries as requests leave them: total_tokens as __init__ set it, the
\* penalty of up to MaxFail aborted attempts, the load of requests in flight
LoadedScores == {<<0, p, u>> : p \in 0..MaxFail, u \in 0..MaxPenalty}

\* a request about to call _select_model on such a table
InitSelectLoaded ==
    /\ modelList \in {l \in ModelLists : l # <<>> /\ Distinct(l) /\ Canonical(l)}
    /\ maxRetry \in [KeySet(modelList) -> {1}]
    /\ model_usage \in [KeySet(modelList) -> LoadedScores]
    /\ cur = 1
    /\ nStarted = 1
    /\ pc = [r \in Req |-> IF r = 1 THEN "loop" ELSE "idle"]
    /\ failed \in {[r \in Req |-> IF r = 1 THEN x ELSE {}] : x \in SUBSET Names}
    /\ InitFrames
    /\ NoText
    /\ NoTools
    /\ NoProxy

SpecSelectLoaded == InitSelectLoaded /\ [][NextSelect]_vars

\* ------------------------------------------------------ _extract_reasoning
\* a content is a sequence of tokens: letters, a whitespace character and the
\* two tags the pattern names
Open  == "<think>"
Close == "</think>"
Tokens == {"a", "b", " ", Open, Close}
Contents == UNION {SeqsOfLen(Tokens, n) : n \in 0..MaxLen}

\* slip: lstrip() for strip()
RECURSIVE Strip_LeadingOnly(_)
Strip_LeadingOnly(seq) ==
    IF seq # <<>> /\ Head(seq) = " " THEN Strip_LeadingOnly(Tail(seq)) ELSE seq

\* str.strip()
RECURSIVE Strip(_)
Strip(seq) ==
    IF seq = <<>> THEN seq
    ELSE IF Head(seq) = " " THEN Strip(Tail(seq))
    ELSE IF seq[Len(seq)] = " " THEN Strip(SubSeq(seq, 1, Len(seq) - 1))
    ELSE seq

\* the first position at or after from that holds tok, 0 if there is none
RECURSIVE IndexFrom(_, _, _)
IndexFrom(seq, tok, from) ==
    IF from > Len(seq) THEN 0
    ELSE IF seq[from] = tok THEN from
    ELSE IndexFrom(seq, tok, from + 1)

\* re.search(r"(?:<think>)?(.*?)</think>", content, re.DOTALL): the leftmost
\* match starts at the first character as soon as a closing tag exists; the
\* opening tag is consumed only if the content starts with it, and the lazy
\* group runs up to the first closing tag. <<first of group 1, position of
\* the closing tag>>, <<0, 0>> if nothing matches.
Match(c) ==
    LET start == IF c # <<>> /\ c[1] = Open THEN 2 ELSE 1
        close == IndexFrom(c, Close, start)
    IN IF close # 0 THEN <<start, close>>
       ELSE IF IndexFrom(c, Close, 1) # 0 THEN <<1, IndexFrom(c, Close, 1)>>
       ELSE <<0, 0>>

\* content with the first match removed and stripped, group 1 stripped
ExtractReasoning(c) ==
    LET m == Match(c)
    IN IF m = <<0, 0>> THEN <<Strip(c), <<>>>>
       ELSE <<Strip(SubSeq(c, m[2] + 1, Len(c))), Strip(SubSeq(c, m[1], m[2] - 1))>>

\* no dispatcher is at work; any content is about to be handed over
InitExtract ==
    /\ modelList = <<>>
    /\ maxRetry = [m \in {} |-> 0]
    /\ model_usage = InitialUsage(modelList)
    /\ cur = 0
    /\ nStarted = 0
    /\ pc = [r \in Req |-> "idle"]
    /\ failed = [r \in Req |-> {}]
    /\ InitFrames
    /\ content \in Contents
    /\ extracted = <<>>
    /\ NoTools
    /\ NoProxy

\* content, reasoning = self._extract_reasoning(content)
CallExtractReasoning ==
    /\ extracted = <<>>
    /\ extracted' = ExtractReasoning(content)
    /\ UNCHANGED <<cfg, model_usage, cur, nStarted, pc, locals, obs, post, content, toolv, proxy>>

NextExtract == CallExtractReasoning

SpecExtract == InitExtract /\ [][NextExtract]_vars

\* ------------------------------------------------------ _build_tool_options
\* no LLMRequest is at work
NoDispatcher ==
    /\ modelList = <<>>
    /\ maxRetry = [m \in {} |-> 0]
    /\ model_usage = InitialUsage(modelList)
    /\ cur = 0
    /\ nStarted = 0
    /\ pc = [r \in Req |-> "idle"]
    /\ failed = [r \in Req |-> {}]
    /\ InitFrames

\* what an entry of tool["parameters"] can be: a 5-tuple that is in order, a
\* 5-tuple with one element of the wrong type, a tuple of another length, the
\* empty tuple, a list of five elements, a number
ParamShapes ==
    {"ok", "name not str", "type not ToolParamType", "description not str",
     "required not bool", "enum_values not list or None",
     "tuple of 4", "empty tuple", "list of 5", "int"}

\* isinstance(param, tuple) and len(param) == 5
IsFiveTuple(param) == param \notin {"tuple of 4", "empty tuple", "list of 5", "int"}

\* the six assert statements of lines 401-406 all pass
AssertsPass(param) ==
    /\ IsFiveTuple(param)
    /\ param # "name not str"
    /\ param # "type not ToolParamType"
    /\ param # "description not str"
    /\ param # "required not bool"
    /\ param # "enum_values not list or None"

\* param[0] can be evaluated (the except clause formats it into the log line)
HasFirstItem(param) == param \notin {"empty tuple", "int"}

\* one turn of "for param in parameters": the parameter is added, or the
\* AssertionError is caught and logged, or evaluating param[0] inside the
\* except clause raises (IndexError, TypeError), which no clause of the try
\* statement catches
CheckParam(param) ==
    IF AssertsPass(param) THEN "added"
    ELSE IF HasFirstItem(param) THEN "illegal"
    ELSE "raised"

\* the tool descriptors given: each one is its list of parameters
ParamLists == {<<>>} \cup {<<x>> : x \in ParamShapes}
                  \cup {<<x, y>> : x \in ParamShapes, y \in {"ok", "type not ToolParamType", "int"}}
ToolLists(longest) == UNION {SeqsOfLen(ParamLists, n) : n \in 0..longest}

\* "for param in parameters" over what is left of the list: tool_legal at the
\* end, or "raised"
RECURSIVE CheckParams(_, _)
CheckParams(parameters, tool_legal) ==
    IF parameters = <<>> THEN (IF tool_legal THEN "legal" ELSE "illegal")
    ELSE LET c == CheckParam(Head(parameters))
         IN IF c = "raised" THEN "raised"
            ELSE CheckParams(Tail(parameters), IF c = "illegal" THEN FALSE ELSE tool_legal)

\* what a call of _build_tool_options comes to
Raised           == [kind |-> "raised", options |-> <<>>]
ReturnedNone     == [kind |-> "None", options |-> <<>>]
Returned(built_options) == [kind |-> "list", options |-> built_options]

\* "for tool in tools" from the i-th descriptor on, acc the tool_options
\* built so far (each option is named by the position of its descriptor);
\* return tool_options or None
RECURSIVE BuildFrom(_, _, _)
BuildFrom(list, i, acc) ==
    IF i > Len(list) THEN (IF acc = <<>> THEN ReturnedNone ELSE Returned(acc))
    ELSE LET legal == CheckParams(list[i], TRUE)
         IN IF legal = "raised" THEN Raised
            ELSE BuildFrom(list, i + 1, IF legal = "legal" THEN Append(acc, i) ELSE acc)

\* _build_tool_options(tools)
BuildToolOptions(list) ==
    IF list = <<>> THEN ReturnedNone ELSE BuildFrom(list, 1, <<>>)

\* any list of tool descriptors is about to be handed over
InitTools ==
    /\ NoDispatcher
    /\ NoText
    /\ NoProxy
    /\ tools \in ToolLists(MaxTools)
    /\ tool_options = NotCalled

\* tool_options = self._build_tool_options(tools)
CallBuildToolOptions ==
    /\ tool_options = NotCalled
    /\ tool_options' = BuildToolOptions(tools)
    /\ UNCHANGED <<cfg, model_usage, cur, nStarted, pc, locals, obs, post, text, tools, proxy>>

NextTools == CallBuildToolOptions

SpecTools == InitTools /\ [][NextTools]_vars

\* ------------------------------------------ image proxy: ProxyManager
\* The coroutines of the manager run on one event loop; a step runs from one
\* await to the next. Every await of the code is taken as a point where
\* another coroutine may run: acquiring _pending_lock, the queue's put and
\* get, the transcoder, asyncio.sleep.
Idle == [at |-> "idle", hash |-> 0]

\* slip: the membership test in _pending_hashes is lost
AlreadyPending_Unchecked(h) == FALSE

\* if emoji.emoji_hash in self._pending_hashes
AlreadyPending(h) == h \in pending_hashes

\* self.get_cached_proxy_path(emoji) or self.should_skip_transcode(emoji)
CachedOrSkipped(h) == h \in cache_files \/ h \in skip_files

\* a ProxyManager whose workers have not been started; PROXY_DIR may hold
\* files of earlier runs
InitProxy ==
    /\ NoDispatcher
    /\ NoText
    /\ NoTools
    /\ pending_hashes = {}
    /\ transcode_queue = <<>>
    /\ pending_lock = NoHolder
    /\ cache_files \in SUBSET Hashes
    /\ skip_files \in SUBSET (Hashes \ cache_files)
    /\ worker = [w \in WorkerIds |-> [at |-> "not started", hash |-> 0]]
    /\ caller = [c \in CallIds |-> Idle]
    /\ returned = "nothing"

\* the variables of the dispatcher and of the two functions applied on their own
Rest == <<cfg, model_usage, cur, nStarted, pc, locals, obs, post, text, toolv>>

\* enqueue_transcode(emoji) is called: an unsupported format returns False,
\* otherwise the call goes on to "async with self._pending_lock". Which
\* frame carries the call makes no difference, the first idle one is taken
EnqueueTranscode(c, h, supported) ==
    /\ caller[c].at = "idle"
    /\ \A d \in CallIds : d < c => caller[d].at # "idle"
    /\ IF supported
       THEN /\ caller' = [caller EXCEPT ![c] = [at |-> "lock", hash |-> h]]
            /\ UNCHANGED returned
       ELSE /\ returned' = "False"
            /\ UNCHANGED caller
    /\ UNCHANGED <<pending_hashes, transcode_queue, pending_lock, cache_files, skip_files,
                   worker, Rest>>

\* the lock is acquired; lines 78-85: the three tests, each leaving the
\* with statement with False, then the hash is added and the put awaited
EnqueueLocked(c, source_exists) ==
    /\ caller[c].at = "lock"
    /\ pending_lock = NoHolder
    /\ LET h == caller[c].hash
       IN IF AlreadyPending(h) \/ CachedOrSkipped(h) \/ ~source_exists
          THEN /\ caller' = [caller EXCEPT ![c] = Idle]
               /\ returned' = "False"
               /\ UNCHANGED <<pending_hashes, pending_lock>>
          ELSE /\ pending_hashes' = pending_hashes \cup {h}
               /\ pending_lock' = <<"caller", c>>
               /\ caller' = [caller EXCEPT ![c] = [at |-> "put", hash |-> h]]
               /\ UNCHANGED returned
    /\ UNCHANGED <<transcode_queue, cache_files, skip_files, worker, Rest>>

\* the put is done (the queue has no maximum size), the lock is released and
\* True returned
EnqueuePut(c) ==
    /\ caller[c].at = "put"
    /\ transcode_queue' = Append(transcode_queue, caller[c].hash)
    /\ pending_lock' = NoHolder
    /\ caller' = [caller EXCEPT ![c] = Idle]
    /\ returned' = "True"
    /\ UNCHANGED <<pending_hashes, cache_files, skip_files, worker, Rest>>

\* start_workers: MAX_CONCURRENT_TRANSCODE tasks, each about to await the queue
StartWorkers ==
    /\ \A w \in WorkerIds : worker[w].at = "not started"
    /\ worker' = [w \in WorkerIds |-> [at |-> "get", hash |-> 0]]
    /\ UNCHANGED <<pending_hashes, transcode_queue, pending_lock, cache_files, skip_files,
                   caller, returned, Rest>>

\* the finally clause of _worker for the task of hash h, once it holds the
\* lock: the hash is discarded (and task_done called); the worker goes on to
\* next
Discard(w, h, next) ==
    /\ pending_hashes' = pending_hashes \ {h}
    /\ worker' = [worker EXCEPT ![w] = [at |-> next, hash |-> 0]]

\* the finally clause is entered: with the lock free it runs at once,
\* otherwise the worker waits for the lock; next is where the worker goes
\* after the clause
EnterFinally(w, h, next) ==
    IF pending_lock = NoHolder
    THEN Discard(w, h, next)
    ELSE /\ worker' = [worker EXCEPT ![w] =
                         [at |-> IF next = "stopped" THEN "finally, cancelled" ELSE "finally",
                          hash |-> h]]
         /\ UNCHANGED pending_hashes

\* queue.get() returns an item and _do_transcode starts: it returns at once
\* if the source is gone or a cache file or skip marker exists (lines
\* 114-121), otherwise it awaits the transcoder
WorkerGet(w, source_exists) ==
    /\ worker[w].at = "get"
    /\ transcode_queue # <<>>
    /\ transcode_queue' = Tail(transcode_queue)
    /\ LET h == Head(transcode_queue)
       IN IF ~source_exists \/ CachedOrSkipped(h)
          THEN EnterFinally(w, h, "sleep")
          ELSE /\ worker' = [worker EXCEPT ![w] = [at |-> "transcoding", hash |-> h]]
               /\ UNCHANGED pending_hashes
    /\ UNCHANGED <<pending_lock, cache_files, skip_files, caller, returned, Rest>>

\* what transcode_to_webp and the lines after it leave in PROXY_DIR
TranscodeOutcomes == {"smaller", "larger", "larger, no marker", "failed"}

\* the transcoder returns: the .webp file is kept, or removed and replaced
\* by a skip marker (which may fail to be written), or was never written;
\* then the finally clause
TranscodeDone(w, outcome) ==
    /\ worker[w].at = "transcoding"
    /\ LET h == worker[w].hash
       IN /\ cache_files' = IF outcome = "smaller" THEN cache_files \cup {h} ELSE cache_files
          /\ skip_files' = IF outcome = "larger" THEN skip_files \cup {h} ELSE skip_files
          /\ EnterFinally(w, h, "sleep")
    /\ UNCHANGED <<transcode_queue, pending_lock, caller, returned, Rest>>

\* the worker waiting in the finally clause gets the lock
WorkerFinally(w) ==
    /\ worker[w].at \in {"finally", "finally, cancelled"}
    /\ pending_lock = NoHolder
    /\ Discard(w, worker[w].hash, IF worker[w].at = "finally" THEN "sleep" ELSE "stopped")
    /\ UNCHANGED <<transcode_queue, pending_lock, cache_files, skip_files, caller, returned, Rest>>

\* asyncio.sleep(TRANSCODE_INTERVAL) returns
WorkerWake(w) ==
    /\ worker[w].at = "sleep"
    /\ worker' = [worker EXCEPT ![w] = [at |-> "get", hash |-> 0]]
    /\ UNCHANGED <<pending_hashes, transcode_queue, pending_lock, cache_files, skip_files,
                   caller, returned, Rest>>

\* stop_workers cancels the task: CancelledError is raised at the await the
\* worker is suspended in. In the transcoder it passes "except Exception"
\* and the finally clause runs; in the finally clause's wait for the lock it
\* leaves the clause before the discard; "except asyncio.CancelledError"
\* then ends the worker
CancelWorker(w) ==
    /\ worker[w].at \in {"get", "transcoding", "finally", "sleep"}
    /\ IF worker[w].at = "transcoding"
       THEN EnterFinally(w, worker[w].hash, "stopped")
       ELSE /\ worker' = [worker EXCEPT ![w] = [at |-> "stopped", hash |-> 0]]
            /\ UNCHANGED pending_hashes
    /\ UNCHANGED <<transcode_queue, pending_lock, cache_files, skip_files, caller, returned, Rest>>

\* _cleanup_stale_cache_sync removes the files of a hash that is no longer
\* in the database
CleanupStaleCache(h) ==
    /\ h \in cache_files \cup skip_files
    /\ cache_files' = cache_files \ {h}
    /\ skip_files' = skip_files \ {h}
    /\ UNCHANGED <<pending_hashes, transcode_queue, pending_lock, worker, caller, returned, Rest>>

NextProxy ==
    \/ \E c \in CallIds, h \in Hashes, supported \in BOOLEAN : EnqueueTranscode(c, h, supported)
    \/ \E c \in CallIds, source_exists \in BOOLEAN : EnqueueLocked(c, source_exists)
    \/ \E c \in CallIds : EnqueuePut(c)
    \/ StartWorkers
    \/ \E w \in WorkerIds, source_exists \in BOOLEAN : WorkerGet(w, source_exists)
    \/ \E w \in WorkerIds, outcome \in TranscodeOutcomes : TranscodeDone(w, outcome)
    \/ \E w \in WorkerIds : WorkerFinally(w)
    \/ \E w \in WorkerIds : WorkerWake(w)
    \/ \E w \in WorkerIds : CancelWorker(w)
    \/ \E h \in Hashes : CleanupStaleCache(h)

SpecProxy == InitProxy /\ [][NextProxy]_vars

\* ===================================================================== claims
Last(seq) == seq[Len(seq)]

\* the orchestrator goes on to select an endpoint that is not excluded
NextEndpointTried(r) ==
    /\ attempt[r] < Len(modelList)
    /\ AvailableModels(modelList, failed[r]) # <<>>

EndpointsRemain(r) == KeySet(modelList) \ failed[r] # {}

\* C1: every orchestrator iteration that entered the retry engine leaves the
\* try statement through the cleanup, which lowers the usage_penalty of the
\* attempted endpoint by exactly one, back to the value it had just before the
\* endpoint was selected, and touches no other score entry.
C1_InFlightRestoredByCleanup ==
    [][\A r \in Req :
         (pc[r] = "finally" /\ pc'[r] # "finally") =>
            /\ model_usage'[model[r]][3] = model_usage[model[r]][3] - 1
            /\ model_usage'[model[r]][3] = preUsage[r]
            /\ model_usage'[model[r]][1] = model_usage[model[r]][1]
            /\ model_usage'[model[r]][2] = model_usage[model[r]][2]
            /\ \A m \in DOMAIN model_usage \ {model[r]} : model_usage'[m] = model_usage[m]
      ]_vars

\* an HTTP-400 abort on the second endpoint tried: the cleanup has run for the
\* failed-over first endpoint and for the aborting one, both are back at their
\* value from before the selection
C1_Witness ==
    \E r \in Req :
        /\ pc[r] = "done"
        /\ result[r].kind = "raise"
        /\ IsBadRequest(result[r].exc)
        /\ Len(tried[r]) = 2
        /\ tried[r][1] # tried[r][2]
        /\ model_usage[model[r]][3] = preUsage[r]
        /\ model_usage[tried[r][1]][3] = 0

\* C2: once an endpoint's HTTP 413 has triggered compression in a request,
\* an endpoint tried later in the same request compresses no more and every
\* call on it is sent the payload compress_messages produced.
C2_CompressedPayloadReused ==
    \A r \in Req :
        compsReq[r] > comps[r] =>
            /\ comps[r] = 0
            /\ (pc[r] = "calling" => sent[r] = produced[r])

\* C3: an HTTP 400 answer ends the whole request with that error: the attempt
\* is aborted, the handler re-raises, and no endpoint is selected afterwards.
C3_BadRequestAbortsRequest ==
    \A r \in Req :
        resp[r] = RespNotOkException(400) =>
            \/ pc[r] = "except" /\ original[r] = RespNotOkException(400)
            \/ /\ pc[r] = "finally"
               /\ exit[r] = "raise"
               /\ last_exception[r] = RespNotOkException(400)
            \/ /\ pc[r] = "done"
               /\ result[r] = [kind |-> "raise", exc |-> RespNotOkException(400), model |-> 0]

\* the 400 came from the first endpoint tried while another one was untried
C3_Witness ==
    \E r \in Req :
        /\ pc[r] = "done"
        /\ result[r].exc = RespNotOkException(400)
        /\ Len(tried[r]) = 1
        /\ EndpointsRemain(r)
        /\ KeySet(modelList) \ {tried[r][1]} # {}

AllFatal(r) ==
    /\ Len(aborts[r]) = Len(tried[r])
    /\ \A i \in 1..Len(aborts[r]) : aborts[r][i] = "fatal"

\* C4: with N >= 1 distinct endpoints, as long as every attempt ends in an
\* endpoint-fatal failure the next endpoint is tried, and the request ends by
\* raising the last failure after exactly N endpoints, its failed set being
\* the set of all N endpoints.
C4_AllEndpointsFatal ==
    \A r \in Req :
        (Distinct(modelList) /\ Len(modelList) >= 1 /\ AllFatal(r)) =>
            /\ pc[r] = "loop" => attempt[r] = Len(tried[r])
            /\ (pc[r] = "loop" /\ Len(tried[r]) < Len(modelList)) => NextEndpointTried(r)
            /\ pc[r] = "done" =>
                  /\ Len(tried[r]) = Len(modelList)
                  /\ attempt[r] = Len(modelList)
                  /\ failed[r] = KeySet(modelList)
                  /\ last_exception[r] # None
                  /\ result[r] = [kind |-> "raise", exc |-> last_exception[r], model |-> 0]

C4_Witness ==
    \E r \in Req :
        /\ pc[r] = "done"
        /\ Distinct(modelList)
        /\ Len(modelList) = MaxModels
        /\ AllFatal(r)
        /\ failed[r] = KeySet(modelList)

\* C5: on an endpoint with maxRetry = M, k < M transient failures do not end
\* the attempt (the engine sleeps and calls again), and a success that follows
\* k transient failures comes after exactly k+1 calls and k sleeps, on the
\* endpoint that was selected.
C5_TransientThenSuccess ==
    \A r \in Req :
        /\ (pc[r] = "finally" /\ exit[r] = "return" /\ comps[r] = 0) =>
              /\ calls[r] = transients[r] + 1
              /\ sleeps[r] = transients[r]
              /\ transients[r] < maxRetry[model[r]]
              /\ model[r] = Last(tried[r])
        /\ (resp[r] \in TransientAnswers /\ transients[r] < maxRetry[model[r]]
              /\ exit[r] # "cancel") =>
              /\ pc[r] \in {"sleeping", "while"}
              /\ sleeps[r] = transients[r]
              /\ retry_remain[r] = maxRetry[model[r]] - transients[r]
              /\ retry_remain[r] > 0

\* M = MaxRetry, k = M - 1: M calls, M - 1 sleeps, then the response is returned
C5_Witness ==
    \E r \in Req :
        /\ pc[r] = "done"
        /\ result[r].kind = "return"
        /\ maxRetry[model[r]] = MaxRetry
        /\ transients[r] = MaxRetry - 1
        /\ transients[r] >= 1
        /\ calls[r] = MaxRetry
        /\ sleeps[r] = MaxRetry - 1

\* C6: on an endpoint with maxRetry = M >= 1 whose every call is answered by a
\* transient failure the engine aborts after exactly M calls and M-1 sleeps
\* with a ModelAttemptFailed carrying the last answer; the orchestrator files
\* it as that endpoint's failure and goes on with the next endpoint.
C6_TransientExhaustion ==
    \A r \in Req :
        (calls[r] >= 1 /\ transients[r] = calls[r] /\ resp[r] \in TransientAnswers
            /\ exit[r] # "cancel") =>
            /\ pc[r] \in {"while", "sleeping"} => calls[r] < maxRetry[model[r]]
            /\ pc[r] \in {"except", "finally", "loop", "done"} =>
                  /\ calls[r] = maxRetry[model[r]]
                  /\ sleeps[r] = maxRetry[model[r]] - 1
            /\ pc[r] = "except" => original[r] = resp[r]
            /\ pc[r] \in {"finally", "loop", "done"} =>
                  /\ last_exception[r] = resp[r]
                  /\ model[r] \in failed[r]
                  /\ Last(aborts[r]) = "exhausted"
            /\ pc[r] = "finally" => exit[r] = "continue"
            /\ (pc[r] = "loop" /\ EndpointsRemain(r)) => NextEndpointTried(r)

\* after M = MaxRetry transient answers on the first endpoint the second is tried
C6_Witness ==
    \E r \in Req :
        /\ Len(tried[r]) = 2
        /\ aborts[r] = <<"exhausted">>
        /\ maxRetry[tried[r][1]] = MaxRetry
        /\ pc[r] = "calling"

\* C7: an endpoint whose maxRetry is 0 is never called; its attempt ends with
\* a ModelAttemptFailed without a cause, which the orchestrator handles like
\* any abort: penalty raised by one, endpoint excluded, next endpoint tried.
C7_ZeroBudgetNeverAttempted ==
    \A r \in Req :
        (pc[r] \in {"while", "calling", "sleeping", "except", "finally"}
            /\ maxRetry[model[r]] <= 0) =>
            /\ calls[r] = 0
            /\ pc[r] \in {"while", "except", "finally"}
            /\ pc[r] = "except" => original[r] = None
            /\ pc[r] = "finally" =>
                  /\ exit[r] = "continue"
                  /\ last_exception[r] = ModelAttemptFailed
                  /\ model[r] \in failed[r]
                  /\ model_usage[model[r]][2] = prePenalty[r] + 1
                  /\ Last(aborts[r]) = "never"
                  /\ EndpointsRemain(r) => attempt[r] + 1 < Len(modelList)

\* the endpoint with maxRetry 0 was skipped and the next one is being called
C7_Witness ==
    \E r \in Req :
        /\ Len(tried[r]) = 2
        /\ aborts[r] = <<"never">>
        /\ maxRetry[tried[r][1]] = 0
        /\ pc[r] = "calling"

EndpointFatalAnswer(r) ==
    \/ resp[r] \in {OtherException, RespNotOkException(401)}
    \/ /\ resp[r] = RespNotOkException(413)
       /\ (sent[r] = "comp" \/ request_type[r] # "response")

\* C9: an endpoint-fatal answer ends the attempt on that endpoint with that
\* call: no retry and no sleep whatever budget is left; the endpoint (and only
\* the endpoints that failed) is excluded and, if an endpoint remains that is
\* not excluded, it is selected next.
C9_EndpointFatalFailsOver ==
    \A r \in Req :
        EndpointFatalAnswer(r) =>
            /\ pc[r] \in {"except", "finally", "loop", "done"}
            /\ sleeps[r] = transients[r]
            /\ retry_remain[r] = maxRetry[model[r]] - transients[r]
            /\ pc[r] = "except" => original[r] = resp[r]
            /\ pc[r] # "except" =>
                  /\ last_exception[r] = resp[r]
                  /\ Last(aborts[r]) = "fatal"
                  /\ failed[r] = {tried[r][i] : i \in 1..Len(aborts[r])}
            /\ pc[r] = "finally" => exit[r] = "continue"
            /\ (pc[r] = "loop" /\ EndpointsRemain(r)) => NextEndpointTried(r)

\* a 401 on the first call although two retries were left; the next endpoint is called
C9_Witness ==
    \E r \in Req :
        /\ Len(tried[r]) = 2
        /\ aborts[r] = <<"fatal">>
        /\ last_exception[r] = RespNotOkException(401)
        /\ maxRetry[tried[r][1]] = MaxRetry
        /\ pc[r] = "calling"

Position(seq, x) == CHOOSE i \in 1..Len(seq) : seq[i] = x

\* C10: _select_model returns an endpoint that is not excluded, whose cost
\* total_tokens + penalty*300 + usage_penalty*1000 is least among the endpoints
\* not excluded, and which comes first in the table's order among those of
\* least cost.
C10_SelectLeastCostFirst ==
    [][\A r \in Req :
         (pc[r] = "loop" /\ pc'[r] = "factory") =>
            LET m  == model'[r]
                av == {k \in KeySet(modelList) : k \notin failed[r]}
            IN /\ m \in av
               /\ \A k \in av : Cost(model_usage[m]) <= Cost(model_usage[k])
               /\ \A k \in av :
                     Cost(model_usage[k]) = Cost(model_usage[m]) =>
                        Position(Keys(modelList), m) <= Position(Keys(modelList), k)
      ]_vars

\* scores (300, 0, 0) and (100, 0, 0): the second endpoint has been chosen
C10_Witness ==
    \E r \in Req :
        /\ pc[r] = "factory"
        /\ Keys(modelList) = <<1, 2>>
        /\ failed[r] = {}
        /\ model_usage[1] = <<300, 0, 0>>
        /\ model_usage[2] = <<100, 0, 1>>
        /\ model[r] = 2

\* C11: _select_model raises the no-model-available error exactly when every
\* key of the score table is in the exclusion set, whatever the penalties and
\* in-flight loads of the table, and a failing selection leaves the score
\* table as it was.
C11_SelectFailsIffAllExcluded ==
    [][\A r \in Req :
         (pc[r] = "loop" /\ attempt[r] < Len(modelList) /\ pc'[r] # "loop") =>
            LET fails == pc'[r] = "done" /\ result'[r].exc = NoModelError
            IN /\ fails <=> KeySet(modelList) \subseteq failed[r]
               /\ ~fails => pc'[r] = "factory" /\ model'[r] \notin failed[r]
               /\ fails => model_usage' = model_usage
      ]_vars

\* both endpoints excluded, one of them still carrying load and a penalty: the
\* selection has failed
C11_Witness ==
    \E r \in Req :
        /\ pc[r] = "done"
        /\ result[r] = [kind |-> "raise", exc |-> NoModelError, model |-> 0]
        /\ Keys(modelList) = <<1, 2>>
        /\ failed[r] = {1, 2}
        /\ model_usage[1] = <<0, 1, 1>>

\* the request has selected an endpoint and not yet run that iteration's cleanup
InFlight(q) == pc[q] \in {"factory", "while", "calling", "sleeping", "except", "finally"}

\* apart from the load the suspended request q put on its endpoint, the two
\* endpoints of the table cost the same
EqualButForLoadOf(q) ==
    /\ Len(Keys(modelList)) = 2
    /\ \A k \in KeySet(modelList) :
          Cost(model_usage[k]) = Cost(model_usage[model[q]]) - (IF k = model[q] THEN 0 ELSE 1000)

\* C12: the step that selects an endpoint raises that endpoint's usage_penalty
\* by exactly one, leaves the rest of the table alone and comes before any
\* client call of the iteration; a request selecting while another one is
\* suspended in its attempt finds that one's endpoint with a raised
\* usage_penalty, and of two endpoints that cost the same apart from that load
\* it takes the other one.
C12_SelectionCountsAtOnce ==
    [][\A r \in Req :
         (pc[r] = "loop" /\ pc'[r] = "factory") =>
            LET m == model'[r]
            IN /\ model_usage'[m] =
                     <<model_usage[m][1], model_usage[m][2], model_usage[m][3] + 1>>
               /\ \A k \in KeySet(modelList) \ {m} : model_usage'[k] = model_usage[k]
               /\ calls'[r] = 0
               /\ \A q \in Req \ {r} :
                     /\ InFlight(q) => model_usage[model[q]][3] >= 1
                     /\ (pc[q] \in {"calling", "sleeping"} /\ failed[r] = {}
                           /\ EqualButForLoadOf(q)) => m # model[q]
      ]_vars

\* two requests on a fresh two-endpoint dispatcher, both suspended in the
\* client call of their first attempt: one on each endpoint
C12_Witness ==
    /\ modelList = <<1, 2>>
    /\ pc[1] = "calling" /\ pc[2] = "calling"
    /\ attempt[1] = 0 /\ attempt[2] = 0
    /\ model[1] = 1 /\ model[2] = 2
    /\ model_usage = [m \in {1, 2} |-> <<0, 0, 1>>]

\* C13: a CancelledError raised at the client call or at the backoff sleep is
\* never taken for a failure of the endpoint; it leaves the try statement
\* through the cleanup, which lowers the attempted endpoint's usage_penalty
\* once, back to its value before the selection, and changes nothing else of
\* the table; the request then ends without another selection and the caller
\* of the public method gets the CancelledError.
C13_CancellationRunsCleanup ==
    [][\A r \in Req :
         /\ original[r] # CancelledError /\ last_exception[r] # CancelledError
         /\ (exit[r] = "cancel" /\ pc[r] = "finally" /\ pc'[r] # "finally") =>
               /\ model_usage'[model[r]] =
                     <<model_usage[model[r]][1], model_usage[model[r]][2], preUsage[r]>>
               /\ model_usage[model[r]][3] = preUsage[r] + 1
               /\ \A m \in KeySet(modelList) \ {model[r]} : model_usage'[m] = model_usage[m]
               /\ pc'[r] = "done"
               /\ result'[r] = [kind |-> "raise", exc |-> CancelledError, model |-> 0]
         /\ (exit[r] = "cancel" /\ pc[r] = "done") =>
               /\ pc'[r] \in {"done", "idle"}
               /\ tried'[r] = tried[r] \/ pc'[r] = "idle"
               /\ model_usage' = model_usage
               /\ delivered'[r].kind = "pending" \/ pc'[r] = "idle"
                     \/ delivered'[r] = [kind |-> "raise", exc |-> CancelledError, model |-> 0]
      ]_vars

\* cancelled in the backoff sleep after a transient answer: the caller has
\* the CancelledError and the endpoint carries no load
C13_Witness ==
    \E r \in Req :
        /\ pc[r] = "done"
        /\ exit[r] = "cancel"
        /\ sleeps[r] = 1 /\ calls[r] = 1
        /\ delivered[r].exc = CancelledError
        /\ model_usage[model[r]][3] = 0

\* C14: when a request has ended, the endpoint selected in its last iteration
\* has its usage_penalty back at the value it had just before that selection,
\* whichever way the iteration was left, a raising message_factory included.
C14_InFlightUndoneOnEveryExit ==
    \A r \in Req :
        (pc[r] = "done" /\ tried[r] # <<>>) =>
            model_usage[Last(tried[r])][3] = preUsage[r]

\* the requests that have selected endpoint m and not yet run the cleanup of
\* that iteration
InFlightOn(m) == {r \in Req : InFlight(r) /\ model[r] = m}

\* C15: with requests interleaving at client calls and backoff sleeps and a
\* message_factory that does not raise, the usage_penalty of every endpoint
\* equals the number of requests that have selected it and not yet run that
\* iteration's cleanup; so it is never negative and is 0 when no request is in
\* flight.
C15_InFlightCountsRequests ==
    /\ \A m \in KeySet(modelList) :
          /\ model_usage[m][3] = Cardinality(InFlightOn(m))
          /\ model_usage[m][3] >= 0
    /\ (\A r \in Req : ~InFlight(r)) => \A m \in KeySet(modelList) : model_usage[m][3] = 0

\* every request frame is suspended in an attempt on the only endpoint
C15_Witness ==
    /\ modelList = <<1>>
    /\ \A r \in Req : pc[r] \in {"calling", "sleeping"}
    /\ model_usage[1][3] = MaxReq

\* C16: when the usage recorder has raised after a successful response, the
\* caller of the public method still gets the successful result of the
\* request, with the name of the endpoint that answered.
C16_RecorderFailureSwallowed ==
    \A r \in Req :
        recorded[r] = "raised" =>
            /\ delivered[r].kind = "return"
            /\ delivered[r].model = result[r].model

HasNoTag(seq) == \A i \in 1..Len(seq) : seq[i] \notin {Open, Close}

\* content = A + <think> + R + </think> + B with no tag in A and none in R
BlockAt(c, i, j) ==
    /\ i \in 1..Len(c) /\ j \in 1..Len(c) /\ i < j
    /\ c[i] = Open /\ c[j] = Close
    /\ HasNoTag(SubSeq(c, 1, i - 1))
    /\ HasNoTag(SubSeq(c, i + 1, j - 1))

\* C17: for a content A<think>R</think>B the extraction returns the content
\* A+B and the reasoning R (each up to surrounding whitespace): only the
\* first delimited block leaves the content, only the text between the tags
\* becomes the reasoning.
C17_BlockExtracted ==
    extracted # <<>> =>
        \A i, j \in 1..Len(content) :
            BlockAt(content, i, j) =>
                extracted = << Strip(SubSeq(content, 1, i - 1) \o SubSeq(content, j + 1, Len(content))),
                               Strip(SubSeq(content, i + 1, j - 1)) >>

\* out is c without the whitespace c starts and ends with
IsContentWithoutMargins(out, c) ==
    /\ out # <<>> => out[1] # " " /\ out[Len(out)] # " "
    /\ \E i \in 0..Len(c) :
          /\ i + Len(out) <= Len(c)
          /\ SubSeq(c, i + 1, i + Len(out)) = out
          /\ \A k \in 1..Len(c) : (k <= i \/ k > i + Len(out)) => c[k] = " "

\* the claim as it stands: without a tag the content comes back as the
\* identical string, the reasoning is empty
C18_UntaggedContentIdentical ==
    (extracted # <<>> /\ HasNoTag(content)) => extracted = <<content, <<>>>>

\* C18: for a content that holds neither tag the extraction returns the
\* content with its leading and trailing whitespace removed and nothing else
\* changed, and an empty reasoning.
C18_UntaggedContentStripped ==
    (extracted # <<>> /\ HasNoTag(content)) =>
        /\ IsContentWithoutMargins(extracted[1], content)
        /\ extracted[2] = <<>>

\* " ab " comes back as "ab"
C18_Witness ==
    /\ content = <<" ", "a", "b", " ">>
    /\ extracted = << <<"a", "b">>, <<>> >>

\* the step in which request r files the failed attempt on endpoint m
FilesAbortOn(r, m) ==
    /\ pc[r] = "except"
    /\ pc'[r] = "finally"
    /\ model[r] = m

\* C19: whatever requests run one after the other or interleaved, the penalty
\* of an endpoint goes up by exactly one in the step that files an aborted
\* attempt on it (budget exhausted, fatal error, never attempted, HTTP 400
\* alike: every abort is filed) and is left as it is by every other step,
\* selection, success and cleanup included; it never goes down.
C19_PenaltyCountsAborts ==
    [][/\ \A m \in KeySet(modelList) :
            /\ model_usage'[m][2] =
                  model_usage[m][2] + (IF \E r \in Req : FilesAbortOn(r, m) THEN 1 ELSE 0)
            /\ model_usage'[m][2] >= model_usage[m][2]
       /\ \A r \in Req :
            (pc[r] = "except" /\ pc'[r] # "except") => FilesAbortOn(r, model[r])
      ]_vars

\* two requests on the only endpoint, one ended by an HTTP 400 and one by an
\* exhausted budget: the endpoint's penalty is 2
C19_Witness ==
    /\ modelList = <<1>>
    /\ pc[1] = "done" /\ pc[2] = "done"
    /\ {aborts[1], aborts[2]} = {<<"bad_request">>, <<"exhausted">>}
    /\ model_usage[1][2] = 2

\* what the last endpoint attempt of request r failed with: the client's last
\* answer, or the ModelAttemptFailed itself if the client was never called
LastCause(r) == IF calls[r] = 0 THEN ModelAttemptFailed ELSE resp[r]

\* C20: a request that ends with every configured endpoint failed and none
\* of them on an HTTP 400 raises what its most recently tried endpoint failed
\* with; the generic all-models-failed error is raised only if no endpoint
\* was configured.
C20_LastCauseSurfaced ==
    \A r \in Req :
        (pc[r] = "done" /\ result[r].kind = "raise" /\ exit[r] \in {"continue", "none"}
            /\ failed[r] = KeySet(modelList)) =>
               result[r].exc = IF tried[r] = <<>> THEN AllFailedError ELSE LastCause(r)

\* the step in which request r selects an endpoint that carries load although
\* endpoint k is not excluded and carries none
PrefersLoadedTo(r, k) ==
    /\ pc[r] = "loop" /\ pc'[r] = "factory"
    /\ model_usage[model'[r]][3] > 0
    /\ k \in KeySet(modelList) \ failed[r]
    /\ model_usage[k][3] = 0

\* the claim as it stands: an endpoint with usage_penalty > 0 is never
\* selected while an endpoint that is not excluded has usage_penalty = 0,
\* whatever the penalties
C21_LoadAlwaysDominates ==
    [][\A r \in Req : \A k \in Names : ~PrefersLoadedTo(r, k)]_vars

\* C21: an endpoint with usage_penalty > 0 is never selected while an
\* endpoint that is not excluded has usage_penalty = 0 and a penalty at most 3
\* above the selected one's; with a penalty 4 or more above it (4 * 300 >
\* 1000) the loaded endpoint can be selected.
C21_LoadDominatesUpToThreeFailures ==
    [][\A r \in Req : \A k \in Names :
          PrefersLoadedTo(r, k) => model_usage[k][2] >= model_usage[model'[r]][2] + 4
      ]_vars

\* the first endpoint carries one request and no penalty, the second no
\* request and the penalty of three failures: the second has been selected
C21_Witness ==
    \E r \in Req :
        /\ pc[r] = "factory"
        /\ Keys(modelList) = <<1, 2>>
        /\ failed[r] = {}
        /\ model_usage[1] = <<0, 0, 1>>
        /\ model_usage[2] = <<0, 3, 1>>
        /\ model[r] = 2

Range(seq) == {seq[i] : i \in 1..Len(seq)}

NoRepeat(seq) == \A i, j \in 1..Len(seq) : seq[i] = seq[j] => i = j

\* C22: within one request every selection takes an endpoint that is not in
\* failed_models_this_request and was not selected before, every endpoint
\* selected earlier is in that set by then (the handler of an aborted attempt
\* puts it there), the for loop makes at most len(model_list) iterations, and
\* message_factory is called once in every iteration, with the client of the
\* endpoint selected in it (never, for a request that has no factory).
C22_EndpointTriedOnce ==
    [][\A r \in Req :
         /\ (pc[r] = "loop" /\ pc'[r] = "factory") =>
               /\ model'[r] \notin failed[r]
               /\ model'[r] \notin Range(tried[r])
               /\ Range(tried[r]) \subseteq failed[r]
               /\ attempt[r] < Len(modelList)
         /\ (pc[r] = "except" /\ pc'[r] # "except") => model[r] \in failed'[r]
         /\ NoRepeat(tried'[r])
         /\ Len(tried'[r]) <= Len(modelList)
         /\ attempt'[r] <= Len(modelList)
         /\ built'[r] =
               IF request_type'[r] # "response" THEN <<>>
               ELSE IF pc'[r] = "factory" THEN SubSeq(tried'[r], 1, Len(tried'[r]) - 1)
               ELSE tried'[r]
      ]_vars

\* both endpoints of the list were tried, one after the other, and both
\* failed; the factory was called once with each one's client
C22_Witness ==
    \E r \in Req :
        /\ pc[r] = "done"
        /\ modelList = <<1, 2>>
        /\ tried[r] = <<1, 2>>
        /\ built[r] = <<1, 2>>
        /\ failed[r] = {1, 2}
        /\ attempt[r] = 2

\* C23: in one endpoint attempt the retry engine calls the client at most
\* max_retry + 1 times and compress_messages at most once, whatever the
\* client answers and whatever list compress_messages returns, an empty one
\* included.
C23_AttemptBounded ==
    \A r \in Req :
        model[r] # 0 =>
            /\ calls[r] <= maxRetry[model[r]] + 1
            /\ comps[r] <= 1

\* penalty * 300 + usage_penalty * 1000 of endpoint k, the request's own
\* selection of endpoint own not counted
CostWithoutTokens(k, own) ==
    model_usage[k][2] * 300 + (model_usage[k][3] - (IF k = own THEN 1 ELSE 0)) * 1000

\* C24: whatever requests have run (answered or failed, with or without
\* usage on the response), total_tokens of every score entry is the 0
\* __init__ put there and the keys of the table are the names of model_list;
\* the endpoint a request has just selected is one of least
\* penalty * 300 + usage_penalty * 1000 among those not excluded.
C24_TokensNeverWritten ==
    /\ DOMAIN model_usage = KeySet(modelList)
    /\ \A m \in KeySet(modelList) : model_usage[m][1] = 0
    /\ \A r \in Req :
          pc[r] = "factory" =>
             \A k \in KeySet(modelList) \ failed[r] :
                CostWithoutTokens(model[r], model[r]) <= CostWithoutTokens(k, model[r])

\* the first endpoint failed, the second answered with usage on the response
\* and the recorder was given it: both entries still hold 0 tokens
C24_Witness ==
    \E r \in Req :
        /\ pc[r] = "done"
        /\ tried[r] = <<1, 2>>
        /\ delivered[r].kind = "return"
        /\ recorded[r] = "ok"
        /\ model_usage[1] = <<0, 1, 0>>
        /\ model_usage[2] = <<0, 0, 0>>

\* request q took the step: its position changed, nobody else's did
StepOf(q) ==
    /\ pc'[q] # pc[q]
    /\ \A r \in Req \ {q} : pc'[r] = pc[r]

\* C25: failed_models_this_request and retry_remain of a request change in
\* steps of that request only; a selection excludes the endpoints the
\* selecting request itself has failed on and no other, so it takes the one
\* of least cost among them even if another request, running or ended, has
\* failed on it (its penalty is all that stays); and every endpoint attempt
\* enters the retry loop with retry_remain = max_retry of its provider.
C25_ExclusionAndBudgetPrivate ==
    [][\A q \in Req :
         /\ (failed'[q] # failed[q] \/ retry_remain'[q] # retry_remain[q]) => StepOf(q)
         /\ (pc[q] = "loop" /\ pc'[q] = "factory") =>
               /\ model'[q] \notin failed[q]
               /\ \A k \in KeySet(modelList) \ failed[q] :
                     Cost(model_usage[model'[q]]) <= Cost(model_usage[k])
         /\ (pc[q] = "factory" /\ pc'[q] = "while") =>
               retry_remain'[q] = maxRetry[model[q]]
      ]_vars

\* the first request has failed on endpoint 1 and waits for endpoint 2; the
\* second request has selected endpoint 1 and called it with the full budget
C25_Witness ==
    /\ modelList = <<1, 2>>
    /\ failed[1] = {1} /\ model[1] = 2 /\ pc[1] = "calling"
    /\ failed[2] = {} /\ model[2] = 1 /\ pc[2] = "calling"
    /\ model_usage[1] = <<0, 1, 1>>
    /\ retry_remain[2] = maxRetry[1]

\* every entry of the tool's parameter list is a 5-tuple of a text name, a
\* type of the enumeration, a text description, a boolean and a list or None
WellFormedTool(parameters) == \A i \in 1..Len(parameters) : parameters[i] = "ok"

\* the positions of the well-formed tools of the list from the i-th on, in order
RECURSIVE WellFormedFrom(_, _)
WellFormedFrom(list, i) ==
    IF i > Len(list) THEN <<>>
    ELSE (IF WellFormedTool(list[i]) THEN <<i>> ELSE <<>>) \o WellFormedFrom(list, i + 1)

\* C26: _build_tool_options never raises; it returns the options of exactly
\* the tools without a malformed parameter tuple, in the order they were
\* given, and None when the list is empty or no tool is left.
C26_MalformedToolsDropped ==
    tool_options # NotCalled =>
        /\ tool_options.kind # "raised"
        /\ IF WellFormedFrom(tools, 1) = <<>>
           THEN tool_options.kind = "None"
           ELSE tool_options.kind = "list" /\ tool_options.options = WellFormedFrom(tools, 1)

\* the worker holds a task it took from the queue and has not yet left the
\* finally clause for
Processing(w) == worker[w].at \in {"transcoding", "finally", "finally, cancelled"}

\* how often hash h is found among the queued tasks and the tasks in the
\* hands of a worker
Occurrences(h) ==
    Cardinality({i \in 1..Len(transcode_queue) : transcode_queue[i] = h})
        + Cardinality({w \in WorkerIds : Processing(w) /\ worker[w].hash = h})

\* the step in which worker w is done with the task of hash h: it held the
\* task and lets go of it, or takes it from the queue and drops it at once
DoneWith(w, h) ==
    \/ Processing(w) /\ worker[w].hash = h /\ worker'[w].hash = 0
    \/ /\ worker[w].at = "get" /\ worker'[w].at = "sleep"
       /\ transcode_queue # <<>> /\ Head(transcode_queue) = h
       /\ transcode_queue' = Tail(transcode_queue)

\* C27: whatever the interleaving of enqueue_transcode calls and workers, a
\* hash is found at most once among the queued tasks and the tasks being
\* processed, and then it is in _pending_hashes; a call for a hash that is
\* pending, cached or marked skip returns False and leaves queue and pending
\* set as they are; a hash leaves _pending_hashes only in the step in which
\* the worker that had its task is done with it (transcoded, failed or
\* cancelled), and is then neither queued nor being processed.
C27_HashPendingOnce ==
    [][/\ \A h \in Hashes :
            /\ Occurrences(h)' <= 1
            /\ Occurrences(h)' = 1 => h \in pending_hashes'
            /\ (h \in pending_hashes /\ h \notin pending_hashes') =>
                  /\ Occurrences(h)' = 0
                  /\ \E w \in WorkerIds : DoneWith(w, h)
       /\ \A c \in CallIds :
            (caller[c].at = "lock" /\ caller'[c].at # "lock"
                /\ caller[c].hash \in pending_hashes \cup cache_files \cup skip_files) =>
               /\ caller'[c].at = "idle"
               /\ returned' = "False"
               /\ transcode_queue' = transcode_queue
               /\ pending_hashes' = pending_hashes
      ]_vars

\* a worker transcodes hash 1, hash 2 is queued behind it, and the latest
\* call, for one of the two, has been answered False
C27_Witness ==
    /\ worker[1] = [at |-> "transcoding", hash |-> 1]
    /\ transcode_queue = <<2>>
    /\ pending_hashes = {1, 2}
    /\ cache_files = {} /\ skip_files = {}
    /\ \A c \in CallIds : caller[c] = Idle
    /\ returned = "False"
====
